---- MODULE Spec2Model ----
(***************************************************************************)
(* State-machine model of the UHD logging core, host/lib/utils/log.cpp:    *)
(* the log_resource singleton (global level, per-logger levels, logger     *)
(* registry, exit flag, bounded queue of capacity 10), its consumer        *)
(* pop_task, the scoped log statement uhd::_log::log (constructor and      *)
(* destructor), the configuration calls add_logger, set_log_level and      *)
(* set_logger_level, the constructor of the singleton with its level       *)
(* parser _get_log_level, and file_logger_backend.                         *)
(*                                                                         *)
(* Threads are interleaved at the granularity of one access to the shared  *)
(* state (one queue operation, one map operation, one load or store of     *)
(* global_level or _exit).  log.cpp takes no lock around global_level,     *)
(* logger_level and _loggers, so every order of these accesses is a        *)
(* behaviour of the model: a read that races with a write returns the      *)
(* value before or the value after it, and an entry inserted while the     *)
(* consumer iterates is visited or missed depending on where the iterator  *)
(* stands.  Logger functions are taken to return normally.                 *)
(*                                                                         *)
(* uhd::transport::bounded_buffer, uhd::task and UHD_SINGLETON_FCN are     *)
(* declared outside log.cpp; their operations are modelled from the        *)
(* specification (sections 3, 4.2 and 4.4).                                *)
(*                                                                         *)
(* Specifications:                                                         *)
(*   Spec      two producers, every configuration call, the teardown       *)
(*   SpecBurst one producer, more statements than the queue holds          *)
(*   SpecOff   one producer whose statements may have the severity off     *)
(*   SpecCtor  the constructor body in every environment, then one producer*)
(*   SpecFair  as Spec with one producer and a fairly scheduled consumer   *)
(*   SpecLive  a producer that never stops, a fairly scheduled consumer    *)
(***************************************************************************)
EXTENDS Integers, Sequences, FiniteSets, TLC

(***************************************************************************)
(* uhd::log::severity_level, by ordinal position.                          *)
(***************************************************************************)
trace == 0
debug == 1
info == 2
warning == 3
error == 4
fatal == 5
off == 6

\* log_resource::_log_queue(10)
QueueCapacity == 10

UHD_CONSOLE_LOGGER_KEY == "console"
UHD_FILE_LOGGER_KEY == "file"

(***************************************************************************)
(* Bounds of the model.                                                    *)
(***************************************************************************)
\* log statements constructed plus configuration calls made, in a behaviour of Spec
MaxOps == 3
\* log statements constructed in a behaviour of SpecBurst
MaxBurst == 15

\* producer threads of Spec and of SpecBurst
Producers == {"p1", "p2"}
BurstProducers == {"p1"}
\* severities the log statements are constructed with, in Spec and in SpecBurst
SevInputs == {info, error}
BurstSevInputs == {info}
\* levels passed to set_log_level and set_logger_level
LevelInputs == {warning}
\* keys passed to add_logger and set_logger_level
KeyInputs == {"console", "user"}
\* logger functions passed to add_logger
FnInputs == {"fnA", "fnB"}
\* UHD_LOG_LEVEL / UHD_LOG_MIN_LEVEL as read by the constructor
EnvLevels == {info, off}

\* producer threads and severities of SpecLive
LiveProducers == {"p1"}
LiveSevInputs == {info}

\* log statements constructed plus configuration calls made, in a behaviour of SpecFair
MaxFairOps == 3
\* producer threads and severities of SpecFair
FairProducers == {"p1"}
FairSevInputs == {info}

\* log statements constructed in a behaviour of SpecOff
MaxOffOps == 3
\* producer threads and severities of SpecOff
OffProducers == {"p1"}
OffSevInputs == {info, off}

\* log statements constructed in a behaviour of SpecCtor, the internal ones included
MaxCtorOps == 3
\* producer threads and severities of SpecCtor
CtorProducers == {"p1"}
CtorSevInputs == {info}
\* UHD_LOG_LEVEL, UHD_LOG_CONSOLE_LEVEL and UHD_LOG_FILE_LEVEL as SpecCtor finds
\* them; <<>> is an unset or empty variable
LevelTexts ==
    { <<>>,
      <<"2">>,
      <<"6">>,
      <<"3", "x">>,
      <<"9", "9", "9", "9", "9", "9", "9", "9", "9", "9">>,
      <<"i", "n", "f", "o">>,
      <<"I", "N", "F", "O">>,
      <<"o", "f", "f">>,
      <<"l", "o", "u", "d">>,
      <<"-", "1">> }
ConsoleLevelTexts == { <<>>, <<"4">>, <<"7">> }
FileLevelTexts == { <<>>, <<"e", "r", "r", "o", "r">> }
\* UHD_LOG_FILE: unset, a path that can be opened, a path that cannot
FileTargets == {"none", "ok", "bad"}

Keys == {UHD_CONSOLE_LOGGER_KEY, UHD_FILE_LOGGER_KEY} \cup KeyInputs
NoInfo == [id |-> 0, verbosity |-> trace]
END == "end()"

(***************************************************************************)
(* std::map<std::string, T>: a set of [key, value] entries, iterated in    *)
(* key order.  std::less<std::string> on the keys used here.               *)
(***************************************************************************)
key_rank == [console |-> 1, file |-> 2, user |-> 3]

key_less(a, b) == key_rank[a] < key_rank[b]

map_keys(m) == {e.key : e \in m}

\* m.find(k) != m.end()
map_has(m, k) == k \in map_keys(m)

\* m.find(k)->second
map_at(m, k) == (CHOOSE e \in m : e.key = k).value

\* m[k] = v : assigns to the entry of k, inserting it when there is none
map_assign(m, k, v) == {e \in m : e.key # k} \cup {[key |-> k, value |-> v]}

\* m.begin()
map_begin(m) ==
    IF m = {} THEN END
    ELSE CHOOSE k \in map_keys(m) : \A j \in map_keys(m) : ~key_less(j, k)

\* ++it, for an iterator at the node of key k
map_next(m, k) ==
    LET after == {j \in map_keys(m) : key_less(k, j)}
    IN IF after = {} THEN END
       ELSE CHOOSE j \in after : \A i \in after : ~key_less(i, j)

VARIABLES
    global_level,   \* log_resource::global_level
    logger_level,   \* log_resource::logger_level
    _loggers,       \* log_resource::_loggers
    _exit,          \* log_resource::_exit
    _log_queue,     \* log_resource::_log_queue, oldest record first
    ppc,            \* per producer: "idle" or "built" (a log object is alive)
    stmt,           \* per producer: the live uhd::_log::log object
    cpc,            \* the consumer's position in pop_task
    log_info,       \* pop_task's local log_info
    it,             \* pop_task's iterator over _loggers (a key, or END)
    mpc,            \* the owner of the singleton: running, joining, destroyed
    n_stmts,        \* log statements constructed so far
    n_cfg,          \* configuration calls made so far
    n_push,         \* successful pushes so far
    ledger,         \* history: per statement id, what happened to it
    visits,         \* history: the consumer's visits of loggers, in order
    keys_at_pop,    \* history: the keys registered when log_info was popped
    last_add,       \* history: per key, the function most recently registered
    at_exit,        \* history: queue and registry when _exit was set
    ipc,            \* the constructor's position: global, console, file, launch, ready, failed
    env,            \* what the constructor reads: environment variables and build options
    file_backend,   \* the file_logger_backend held by the file logger
    n_tasks,        \* pop_task threads started so far
    parse,          \* history: the calls of _get_log_level, in order
    popped,         \* history: the ids of the records popped, in order
    level_at_add,   \* history: per key, whether it had a level at its last add_logger
    history_on      \* whether the unbounded histories and counters are kept

vars == <<global_level, logger_level, _loggers, _exit, _log_queue, ppc, stmt,
          cpc, log_info, it, mpc, n_stmts, n_cfg, n_push, ledger, visits,
          keys_at_pop, last_add, at_exit, ipc, env, file_backend, n_tasks,
          parse, popped, level_at_add, history_on>>

shared == <<global_level, logger_level, _loggers, _exit, _log_queue>>
producer_vars == <<ppc, stmt, n_stmts, n_push, ledger>>
consumer_vars == <<cpc, log_info, it, visits, keys_at_pop, popped>>
ctor_vars == <<ipc, env, n_tasks, parse, history_on>>
other_vars == <<level_at_add, ctor_vars>>


(***************************************************************************)
(* uhd::transport::bounded_buffer<logging_info> (section 4.2): a FIFO of   *)
(* fixed capacity.  A sequence, oldest element first.                      *)
(***************************************************************************)
\* push_with_haste: never waits; a full buffer rejects the new element
push_with_haste(q, elem) ==
    IF Len(q) >= QueueCapacity THEN q ELSE Append(q, elem)

\* pop_with_haste / pop_with_timed_wait succeed iff the buffer holds an element
can_pop(q) == Len(q) > 0

\* the element a successful pop returns, and the buffer it leaves
pop_elem(q) == Head(q)

pop_rest(q) == Tail(q)

(***************************************************************************)
(* log_resource::_get_log_level.  A std::string is a sequence of           *)
(* one-character strings.                                                  *)
(***************************************************************************)
digit_value ==
    ("0" :> 0) @@ ("1" :> 1) @@ ("2" :> 2) @@ ("3" :> 3) @@ ("4" :> 4) @@
    ("5" :> 5) @@ ("6" :> 6) @@ ("7" :> 7) @@ ("8" :> 8) @@ ("9" :> 9)

\* std::isdigit
isdigit(c) == c \in DOMAIN digit_value

\* the largest int; std::stoi throws std::out_of_range above it
INT_MAX == 2147483647

\* the digits std::stoi converts: the longest run of digits at the start of str
stoi_digits(str) ==
    SubSeq(str, 1, Cardinality({i \in 1..Len(str) :
                                   \A j \in 1..i : isdigit(str[j])}))

\* the value of a run of digits, or OUT_OF_RANGE when it is above INT_MAX
OUT_OF_RANGE == -1

RECURSIVE decimal(_)
decimal(d) ==
    IF d = <<>> THEN 0
    ELSE LET high == decimal(SubSeq(d, 1, Len(d) - 1))
             low == digit_value[d[Len(d)]]
         IN IF high = OUT_OF_RANGE \/ high > (INT_MAX - low) \div 10
            THEN OUT_OF_RANGE
            ELSE high * 10 + low

\* the names if_loglevel_equal compares with, in the order of the enumerators
level_names ==
    << <<"t", "r", "a", "c", "e">>,
       <<"d", "e", "b", "u", "g">>,
       <<"i", "n", "f", "o">>,
       <<"w", "a", "r", "n", "i", "n", "g">>,
       <<"e", "r", "r", "o", "r">>,
       <<"f", "a", "t", "a", "l">>,
       <<"o", "f", "f">> >>

\* _get_log_level: the level returned, whether UHD_LOGGER_ERROR was executed,
\* and whether an exception left the function
_get_log_level(log_level_str, previous_level) ==
    IF log_level_str # <<>> /\ isdigit(log_level_str[1])
    THEN LET log_level_num == decimal(stoi_digits(log_level_str))
         IN IF log_level_num = OUT_OF_RANGE
            THEN [level |-> previous_level, logged |-> FALSE, threw |-> TRUE]
            ELSE IF log_level_num >= trace /\ log_level_num <= fatal
            THEN [level |-> log_level_num, logged |-> FALSE, threw |-> FALSE]
            ELSE [level |-> previous_level, logged |-> TRUE, threw |-> FALSE]
    ELSE IF \E i \in DOMAIN level_names : level_names[i] = log_level_str
    THEN [level |-> (CHOOSE i \in DOMAIN level_names :
                        level_names[i] = log_level_str) - 1,
          logged |-> FALSE, threw |-> FALSE]
    ELSE [level |-> previous_level, logged |-> FALSE, threw |-> FALSE]

(***************************************************************************)
(* file_logger_backend.  target is "ok" for a path that can be opened and  *)
(* "bad" for one that cannot.                                              *)
(***************************************************************************)
NoBackend == [alive |-> FALSE, is_open |-> FALSE, closes |-> 0, cerr |-> 0]

\* file_logger_backend::file_logger_backend: a failed open throws
\* std::ofstream::failure, which is caught and reported on std::cerr
file_logger_backend_ctor(target) ==
    [alive |-> TRUE,
     is_open |-> target = "ok",
     closes |-> 0,
     cerr |-> IF target = "ok" THEN 0 ELSE 1]

\* a log that writes without looking at the stream
file_logger_backend_log_unchecked(backend) == TRUE

\* file_logger_backend::log: whether a line is written
file_logger_backend_log(backend) == backend.is_open

\* file_logger_backend::~file_logger_backend
file_logger_backend_dtor(backend) ==
    [backend EXCEPT !.alive = FALSE,
                    !.is_open = FALSE,
                    !.closes = IF backend.is_open THEN @ + 1 ELSE @]

\* the last reference to the backend goes away with the logger that holds it
release_backend(backend) ==
    IF backend.alive THEN file_logger_backend_dtor(backend) ELSE backend

(***************************************************************************)
(* log_resource::log_resource.  env_level is the level UHD_LOG_MIN_LEVEL / *)
(* UHD_LOG_LEVEL resolve to (off when neither is set), console_disable is  *)
(* UHD_LOG_CONSOLE_DISABLE, file_target says whether UHD_LOG_FILE names a  *)
(* file.  The console and file levels are left at their default, trace.    *)
(* InitWith is the state in which the constructor returns; histories says  *)
(* whether the history variables are kept.                                 *)
(***************************************************************************)
ctor_logger_level(console_disable, file_target) ==
    (IF console_disable THEN {}
     ELSE {[key |-> UHD_CONSOLE_LOGGER_KEY, value |-> trace]})
    \cup
    (IF file_target THEN {[key |-> UHD_FILE_LOGGER_KEY, value |-> trace]}
     ELSE {})

ctor_loggers(console_disable, file_target) ==
    (IF console_disable THEN {}
     ELSE {[key |-> UHD_CONSOLE_LOGGER_KEY, value |-> "console_log"]})
    \cup
    (IF file_target THEN {[key |-> UHD_FILE_LOGGER_KEY, value |-> "file_log"]}
     ELSE {})

InitWith(env_levels, console_disables, file_targets, histories) ==
    \E env_level \in env_levels, console_disable \in console_disables,
       file_target \in file_targets :
        /\ ipc = "ready"
        /\ env = [level |-> IF env_level = off THEN <<>> ELSE level_names[env_level + 1],
                  console_level |-> <<>>,
                  file_level |-> <<>>,
                  console_disable |-> console_disable,
                  file |-> IF file_target THEN "ok" ELSE "none"]
        /\ file_backend = IF file_target THEN file_logger_backend_ctor("ok")
                          ELSE NoBackend
        /\ n_tasks = 1
        /\ parse = <<>>
        /\ popped = <<>>
        /\ level_at_add = [k \in Keys |-> "never"]
        /\ history_on \in histories
        /\ global_level = env_level
        /\ logger_level = ctor_logger_level(console_disable, file_target)
        /\ _loggers = ctor_loggers(console_disable, file_target)
        /\ _exit = FALSE
        /\ _log_queue = <<>>
        /\ ppc = [t \in Producers |-> "idle"]
        /\ stmt = [t \in Producers |-> [_log_it |-> FALSE, _log_info |-> NoInfo, id |-> 0]]
        \* uhd::task::make has started pop_task
        /\ cpc = "loop"
        /\ log_info = NoInfo
        /\ it = END
        /\ mpc = "running"
        /\ n_stmts = 0
        /\ n_cfg = 0
        /\ n_push = 0
        /\ ledger = <<>>
        /\ visits = <<>>
        /\ keys_at_pop = {}
        /\ last_add = [k \in Keys |->
                         IF map_has(_loggers, k) THEN map_at(_loggers, k) ELSE "none"]
        /\ at_exit = [set |-> FALSE, queue |-> <<>>, keys |-> {}]

(***************************************************************************)
(* The log statement, uhd::_log::log.                                      *)
(***************************************************************************)
\* the comparison of the constructor, inverted
ctor_log_it_inverted(verbosity, level) == verbosity <= level

\* _log_it(verbosity >= log_rs().global_level)
ctor_log_it(verbosity, level) == verbosity >= level

\* uhd::_log::log::log
Log_ctor(t, verbosity, max_ops) ==
    /\ ipc = "ready"
    /\ mpc # "destroyed"
    /\ ppc[t] = "idle"
    /\ n_stmts + n_cfg < max_ops
    /\ LET log_it == ctor_log_it(verbosity, global_level)
           id == IF history_on THEN n_stmts + 1 ELSE 0
       IN /\ stmt' = [stmt EXCEPT ![t] =
                        [_log_it |-> log_it,
                         _log_info |-> IF log_it
                                       THEN [id |-> id, verbosity |-> verbosity]
                                       ELSE NoInfo,
                         id |-> id]]
          /\ ledger' = IF history_on
                       THEN Append(ledger, [verbosity |-> verbosity,
                                            level |-> global_level,
                                            log_it |-> log_it,
                                            pushes |-> 0,
                                            seq |-> 0])
                       ELSE ledger
    /\ ppc' = [ppc EXCEPT ![t] = "built"]
    /\ n_stmts' = IF history_on THEN n_stmts + 1 ELSE n_stmts
    /\ UNCHANGED <<shared, consumer_vars, mpc, n_cfg, n_push, last_add, at_exit,
                   other_vars, file_backend>>

\* a push that puts the record in front of the queued ones
push_lifo(rec) ==
    _log_queue' = IF Len(_log_queue) >= QueueCapacity THEN _log_queue
                  ELSE <<rec>> \o _log_queue

\* a push that ignores the capacity
push_unbounded(rec) == _log_queue' = Append(_log_queue, rec)

\* a push that waits for room (bounded_buffer's push_with_wait)
push_waiting(rec) ==
    /\ Len(_log_queue) < QueueCapacity
    /\ _log_queue' = Append(_log_queue, rec)

\* a push that makes room by dropping the oldest queued record
push_evict_oldest(rec) ==
    _log_queue' = IF Len(_log_queue) >= QueueCapacity
                  THEN Append(Tail(_log_queue), rec)
                  ELSE Append(_log_queue, rec)

\* log_resource::push
push(rec) == _log_queue' = push_with_haste(_log_queue, rec)

\* a destructor that evaluates the global filter again
dtor_submits_reevaluated(log_it, verbosity, level_now) == verbosity >= level_now

\* if (_log_it) in uhd::_log::log::~log
dtor_submits(log_it, verbosity, level_now) == log_it

\* uhd::_log::log::~log
Log_dtor(t) ==
    /\ ipc = "ready"
    /\ mpc # "destroyed"
    /\ ppc[t] = "built"
    /\ IF dtor_submits(stmt[t]._log_it,
                       IF history_on THEN ledger[stmt[t].id].verbosity
                       ELSE stmt[t]._log_info.verbosity,
                       global_level)
       THEN /\ push(stmt[t]._log_info)
            /\ LET accepted == Len(_log_queue') > Len(_log_queue)
               IN IF history_on
                  THEN /\ n_push' = IF accepted THEN n_push + 1 ELSE n_push
                       /\ ledger' = [ledger EXCEPT ![stmt[t].id] =
                                       [@ EXCEPT !.pushes = @ + 1,
                                                 !.seq = IF accepted THEN n_push + 1
                                                         ELSE 0]]
                  ELSE UNCHANGED <<n_push, ledger>>
       ELSE UNCHANGED <<_log_queue, n_push, ledger>>
    /\ ppc' = [ppc EXCEPT ![t] = "idle"]
    /\ stmt' = [stmt EXCEPT ![t] = [_log_it |-> FALSE, _log_info |-> NoInfo, id |-> 0]]
    /\ UNCHANGED <<global_level, logger_level, _loggers, _exit, consumer_vars,
                   mpc, n_stmts, n_cfg, last_add, at_exit,
                   other_vars, file_backend>>


(***************************************************************************)
(* The consumer, log_resource::pop_task.                                   *)
(*   cpc = "unstarted"      uhd::task::make has not been called yet        *)
(*         "loop"           at while (!_exit)                              *)
(*         "wait"           in _log_queue.pop_with_timed_wait(log_info, 1) *)
(*         "dispatch"       in the for loop of the main loop               *)
(*         "drain"          at while (_log_queue.pop_with_haste(log_info)) *)
(*         "drain_dispatch" in the for loop of the exit procedure          *)
(*         "done"           pop_task has returned                          *)
(***************************************************************************)
RECURSIVE seq_of(_)
seq_of(S) ==
    IF S = {} THEN <<>>
    ELSE LET x == CHOOSE y \in S : TRUE IN <<x>> \o seq_of(S \ {x})

\* the comparison of the for loop body, inverted
logger_skips_inverted(has_level, level, verbosity) == has_level /\ verbosity > level

\* level != logger_level.end() && log_info.verbosity < level->second
logger_skips(has_level, level, verbosity) == has_level /\ verbosity < level

\* one pass of the for loop body, for the registry entry e
visit_of(e, rec, phase) ==
    LET has_level == map_has(logger_level, e.key)
        level == IF has_level THEN map_at(logger_level, e.key) ELSE trace
    IN [key |-> e.key,
        fn |-> e.value,
        id |-> rec.id,
        verbosity |-> rec.verbosity,
        has_level |-> has_level,
        level |-> level,
        called |-> ~logger_skips(has_level, level, rec.verbosity),
        wrote |-> /\ ~logger_skips(has_level, level, rec.verbosity)
                  /\ e.value = "file_log"
                  /\ file_logger_backend_log(file_backend),
        phase |-> phase,
        global |-> global_level,
        reg_fn |-> last_add[e.key]]

\* the for loop body at iterator it, and ++it
dispatch_step(phase, back_to) ==
    /\ visits' = IF history_on
                 THEN visits \o seq_of({visit_of(e, log_info, phase) :
                                           e \in {x \in _loggers : x.key = it}})
                 ELSE visits
    /\ it' = map_next(_loggers, it)
    /\ cpc' = IF it' = END THEN back_to ELSE cpc
    /\ UNCHANGED <<shared, producer_vars, log_info, keys_at_pop, popped, mpc, n_cfg,
                   last_add, at_exit,
                   other_vars, file_backend>>

\* a pop that copies the oldest record and leaves it in the queue
pop_step_peek(dispatch_pc, back_to) ==
    /\ log_info' = pop_elem(_log_queue)
    /\ _log_queue' = _log_queue
    /\ it' = map_begin(_loggers)
    /\ keys_at_pop' = map_keys(_loggers)
    /\ popped' = Append(popped, log_info'.id)
    /\ cpc' = IF it' = END THEN back_to ELSE dispatch_pc

\* a successful pop into log_info, and the begin() of the for loop
pop_step(dispatch_pc, back_to) ==
    /\ log_info' = pop_elem(_log_queue)
    /\ _log_queue' = pop_rest(_log_queue)
    /\ it' = map_begin(_loggers)
    /\ keys_at_pop' = map_keys(_loggers)
    /\ popped' = IF history_on THEN Append(popped, log_info'.id) ELSE popped
    /\ cpc' = IF it' = END THEN back_to ELSE dispatch_pc

\* while (!_exit)
MainLoopTest ==
    /\ cpc = "loop"
    /\ cpc' = IF _exit THEN "drain" ELSE "wait"
    /\ UNCHANGED <<shared, producer_vars, log_info, it, visits, keys_at_pop,
                   popped, mpc, n_cfg, last_add, at_exit,
                   other_vars, file_backend>>

\* a main loop that pops a record and goes on without the for loop
PopTimedWait_discard ==
    /\ cpc = "wait"
    /\ cpc' = "loop"
    /\ IF can_pop(_log_queue)
       THEN /\ log_info' = pop_elem(_log_queue)
            /\ _log_queue' = pop_rest(_log_queue)
            /\ popped' = Append(popped, log_info'.id)
       ELSE UNCHANGED <<_log_queue, log_info, popped>>
    /\ UNCHANGED <<global_level, logger_level, _loggers, _exit, producer_vars,
                   it, keys_at_pop, visits, mpc, n_cfg, last_add, at_exit,
                   other_vars, file_backend>>

\* if (_log_queue.pop_with_timed_wait(log_info, 1)): a record, or the timeout
PopTimedWait ==
    /\ cpc = "wait"
    /\ IF can_pop(_log_queue)
       THEN pop_step("dispatch", "loop")
       ELSE /\ cpc' = "loop"
            /\ UNCHANGED <<_log_queue, log_info, it, keys_at_pop, popped>>
    /\ UNCHANGED <<global_level, logger_level, _loggers, _exit, producer_vars,
                   visits, mpc, n_cfg, last_add, at_exit,
                   other_vars, file_backend>>

\* the for loop of the main loop
MainDispatch ==
    /\ cpc = "dispatch"
    /\ dispatch_step("main", "loop")

\* a pop_task that returns without the exit procedure
DrainPop_no_drain ==
    /\ cpc = "drain"
    /\ cpc' = "done"
    /\ UNCHANGED <<shared, producer_vars, log_info, it, visits, keys_at_pop,
                   popped, mpc, n_cfg, last_add, at_exit,
                   other_vars, file_backend>>

\* while (_log_queue.pop_with_haste(log_info)), and the return of pop_task
DrainPop ==
    /\ cpc = "drain"
    /\ IF can_pop(_log_queue)
       THEN pop_step("drain_dispatch", "drain")
       ELSE /\ cpc' = "done"
            /\ UNCHANGED <<_log_queue, log_info, it, keys_at_pop, popped>>
    /\ UNCHANGED <<global_level, logger_level, _loggers, _exit, producer_vars,
                   visits, mpc, n_cfg, last_add, at_exit,
                   other_vars, file_backend>>

\* the for loop of the exit procedure
DrainDispatch ==
    /\ cpc = "drain_dispatch"
    /\ dispatch_step("drain", "drain")

(***************************************************************************)
(* log_resource::~log_resource: _exit = true, then _pop_task.reset(),      *)
(* which waits for pop_task to return (section 4.4, Shutdown).             *)
(***************************************************************************)
Dtor_set_exit ==
    /\ ipc = "ready"
    /\ mpc = "running"
    /\ _exit' = TRUE
    /\ mpc' = "joining"
    /\ at_exit' = [set |-> TRUE, queue |-> _log_queue, keys |-> map_keys(_loggers)]
    /\ UNCHANGED <<global_level, logger_level, _loggers, _log_queue,
                   producer_vars, consumer_vars, n_cfg, last_add,
                   other_vars, file_backend>>

Dtor_join ==
    /\ mpc = "joining"
    /\ cpc = "done"
    /\ mpc' = "destroyed"
    \* the members are destroyed, _loggers and the file logger it holds among them
    /\ file_backend' = release_backend(file_backend)
    /\ UNCHANGED <<shared, producer_vars, consumer_vars, n_cfg, last_add, at_exit,
                   other_vars>>

(***************************************************************************)
(* log_resource::log_resource, stage by stage.  The member initializers    *)
(* have run: global_level is off, _exit is false, the queue and the maps   *)
(* are empty.  The build defines none of the UHD_LOG_* level macros; the   *)
(* levels come from the environment variables.                             *)
(*   ipc = "global"   before the global level is resolved                  *)
(*         "console"  before the console logger is set up                  *)
(*         "file"     before the file logger is set up                     *)
(*         "launch"   before uhd::task::make                               *)
(*         "ready"    the constructor has returned                         *)
(*         "failed"   the constructor did not return normally              *)
(***************************************************************************)
\* a constructor that launches the consumer before it registers the loggers
ctor_after_launch_first(stage) ==
    CASE stage = "global" -> "launch"
      [] stage = "launch" -> "console"
      [] stage = "console" -> "file"
      [] stage = "file" -> "ready"

\* the order of the stages in the constructor body
ctor_after(stage) ==
    CASE stage = "global" -> "console"
      [] stage = "console" -> "file"
      [] stage = "file" -> "launch"
      [] stage = "launch" -> "ready"

\* if (env != NULL && env[0] != '\0') level = _get_log_level(env, level)
parse_env(text, previous_level) ==
    IF text = <<>>
    THEN [level |-> previous_level, logged |-> FALSE, threw |-> FALSE]
    ELSE _get_log_level(text, previous_level)

\* UHD_LOGGER_ERROR in _get_log_level constructs a log statement, which calls
\* log_rs() while log_rs() is initializing the singleton.  What a re-entered
\* first access does is undefined: the initialization fails (an exception, an
\* abort or a deadlock, by the runtime), or the access goes on with the
\* object under construction.
ReentryOutcomes == {"fails", "proceeds"}

\* the stage does not complete
ctor_fails(r, outcome) == r.threw \/ (r.logged /\ outcome = "fails")

\* the log statement of UHD_LOGGER_ERROR, from its constructor to its destructor
internal_error(executed) ==
    IF executed
    THEN LET log_it == ctor_log_it(error, global_level)
         IN /\ n_stmts' = n_stmts + 1
            /\ IF log_it THEN push([id |-> n_stmts + 1, verbosity |-> error])
               ELSE UNCHANGED _log_queue
            /\ LET accepted == Len(_log_queue') > Len(_log_queue)
               IN /\ n_push' = IF accepted THEN n_push + 1 ELSE n_push
                  /\ ledger' = Append(ledger,
                                      [verbosity |-> error,
                                       level |-> global_level,
                                       log_it |-> log_it,
                                       pushes |-> IF log_it THEN 1 ELSE 0,
                                       seq |-> IF accepted THEN n_push + 1 ELSE 0])
    ELSE UNCHANGED <<n_stmts, _log_queue, n_push, ledger>>

\* one call of _get_log_level by the constructor, with result r
parse_call(text, previous_level, r, outcome) ==
    /\ parse' = IF text = <<>> THEN parse
                ELSE Append(parse, [text |-> text,
                                    previous |-> previous_level,
                                    level |-> r.level,
                                    logged |-> r.logged,
                                    threw |-> r.threw])
    /\ internal_error(r.logged /\ outcome = "proceeds")

\* global_level from UHD_LOG_LEVEL
CtorGlobal ==
    /\ ipc = "global"
    /\ \E outcome \in ReentryOutcomes :
          LET r == parse_env(env.level, global_level)
          IN /\ parse_call(env.level, global_level, r, outcome)
             /\ IF ctor_fails(r, outcome)
                THEN ipc' = "failed" /\ UNCHANGED global_level
                ELSE ipc' = ctor_after("global") /\ global_level' = r.level
    /\ UNCHANGED <<logger_level, _loggers, _exit, ppc, stmt, consumer_vars, mpc,
                   n_cfg, last_add, at_exit, level_at_add, env, n_tasks,
                   history_on, file_backend>>

\* the console logger, unless UHD_LOG_CONSOLE_DISABLE is defined
CtorConsole ==
    /\ ipc = "console"
    /\ IF env.console_disable
       THEN /\ ipc' = ctor_after("console")
            /\ UNCHANGED <<logger_level, _loggers, last_add, parse, n_stmts,
                           _log_queue, n_push, ledger>>
       ELSE \E outcome \in ReentryOutcomes :
               LET r == parse_env(env.console_level, trace)
               IN /\ parse_call(env.console_level, trace, r, outcome)
                  /\ IF ctor_fails(r, outcome)
                     THEN /\ ipc' = "failed"
                          /\ UNCHANGED <<logger_level, _loggers, last_add>>
                     ELSE /\ ipc' = ctor_after("console")
                          /\ logger_level' = map_assign(logger_level,
                                                 UHD_CONSOLE_LOGGER_KEY, r.level)
                          /\ _loggers' = map_assign(_loggers,
                                             UHD_CONSOLE_LOGGER_KEY, "console_log")
                          /\ last_add' = [last_add EXCEPT
                                             ![UHD_CONSOLE_LOGGER_KEY] = "console_log"]
    /\ UNCHANGED <<global_level, _exit, ppc, stmt, consumer_vars, mpc, n_cfg,
                   at_exit, level_at_add, env, n_tasks, history_on, file_backend>>

\* the file logger, if UHD_LOG_FILE names a file
CtorFile ==
    /\ ipc = "file"
    /\ \E outcome \in ReentryOutcomes :
          LET r == parse_env(env.file_level, trace)
          IN /\ parse_call(env.file_level, trace, r, outcome)
             /\ IF ctor_fails(r, outcome)
                THEN /\ ipc' = "failed"
                     /\ UNCHANGED <<logger_level, _loggers, last_add, file_backend>>
                ELSE /\ ipc' = ctor_after("file")
                     /\ IF env.file # "none"
                        THEN /\ logger_level' = map_assign(logger_level,
                                                    UHD_FILE_LOGGER_KEY, r.level)
                             /\ file_backend' = file_logger_backend_ctor(env.file)
                             /\ _loggers' = map_assign(_loggers,
                                                UHD_FILE_LOGGER_KEY, "file_log")
                             /\ last_add' = [last_add EXCEPT
                                                ![UHD_FILE_LOGGER_KEY] = "file_log"]
                        ELSE UNCHANGED <<logger_level, _loggers, last_add, file_backend>>
    /\ UNCHANGED <<global_level, _exit, ppc, stmt, consumer_vars, mpc, n_cfg,
                   at_exit, level_at_add, env, n_tasks, history_on>>

\* _pop_task = uhd::task::make(...): pop_task starts on its own thread
CtorLaunch ==
    /\ ipc = "launch"
    /\ ipc' = ctor_after("launch")
    /\ n_tasks' = n_tasks + 1
    /\ cpc' = "loop"
    /\ UNCHANGED <<shared, producer_vars, log_info, it, visits, keys_at_pop, popped,
                   mpc, n_cfg, last_add, at_exit, level_at_add, env, parse,
                   history_on, file_backend>>

(***************************************************************************)
(* Configuration calls.                                                    *)
(***************************************************************************)
\* an add_logger that inserts without replacing the entry of the key
add_logger_insert_only(loggers, key, logger_fn) ==
    loggers \cup {[key |-> key, value |-> logger_fn]}

\* an add_logger that tries the new logger out on the calling thread
AddLogger_probe(key, logger_fn, max_ops) ==
    /\ ipc = "ready"
    /\ mpc # "destroyed"
    /\ n_stmts + n_cfg < max_ops
    /\ _loggers' = map_assign(_loggers, key, logger_fn)
    /\ last_add' = [last_add EXCEPT ![key] = logger_fn]
    /\ n_cfg' = n_cfg + 1
    /\ visits' = Append(visits, visit_of([key |-> key, value |-> logger_fn],
                                         NoInfo, "add_logger"))
    /\ UNCHANGED <<global_level, logger_level, _exit, _log_queue, producer_vars,
                   cpc, log_info, it, keys_at_pop, popped, mpc, at_exit,
                   other_vars, file_backend>>

\* an add_logger that gives the new logger a fresh level entry, trace
AddLogger_fresh_level(key, logger_fn, max_ops) ==
    /\ ipc = "ready"
    /\ mpc # "destroyed"
    /\ n_stmts + n_cfg < max_ops
    /\ _loggers' = map_assign(_loggers, key, logger_fn)
    /\ logger_level' = map_assign(logger_level, key, trace)
    /\ file_backend' = IF key = UHD_FILE_LOGGER_KEY THEN release_backend(file_backend)
                       ELSE file_backend
    /\ last_add' = [last_add EXCEPT ![key] = logger_fn]
    /\ level_at_add' = [level_at_add EXCEPT ![key] =
                           IF map_has(logger_level, key) THEN "set" ELSE "unset"]
    /\ n_cfg' = n_cfg + 1
    /\ UNCHANGED <<global_level, _exit, _log_queue, producer_vars,
                   consumer_vars, mpc, at_exit, ctor_vars>>

\* log_resource::add_logger
add_logger(loggers, key, logger_fn) == map_assign(loggers, key, logger_fn)

\* uhd::log::add_logger
AddLogger(key, logger_fn, max_ops) ==
    /\ ipc = "ready"
    /\ mpc # "destroyed"
    /\ n_stmts + n_cfg < max_ops
    /\ _loggers' = add_logger(_loggers, key, logger_fn)
    \* assigning to the entry of the file key destroys the built-in file logger
    /\ file_backend' = IF key = UHD_FILE_LOGGER_KEY THEN release_backend(file_backend)
                       ELSE file_backend
    /\ last_add' = [last_add EXCEPT ![key] = logger_fn]
    /\ level_at_add' = [level_at_add EXCEPT ![key] =
                           IF map_has(logger_level, key) THEN "set" ELSE "unset"]
    /\ n_cfg' = n_cfg + 1
    /\ UNCHANGED <<global_level, logger_level, _exit, _log_queue, producer_vars,
                   consumer_vars, mpc, at_exit, ctor_vars>>

\* a set_log_level that also removes the queued records below the new level
SetLogLevel_refilter(level, max_ops) ==
    /\ ipc = "ready"
    /\ mpc # "destroyed"
    /\ n_stmts + n_cfg < max_ops
    /\ global_level' = level
    /\ _log_queue' = SelectSeq(_log_queue, LAMBDA r : r.verbosity >= level)
    /\ n_cfg' = n_cfg + 1
    /\ UNCHANGED <<logger_level, _loggers, _exit, producer_vars,
                   consumer_vars, mpc, last_add, at_exit,
                   other_vars, file_backend>>

\* uhd::log::set_log_level
SetLogLevel(level, max_ops) ==
    /\ ipc = "ready"
    /\ mpc # "destroyed"
    /\ n_stmts + n_cfg < max_ops
    /\ global_level' = level
    /\ n_cfg' = n_cfg + 1
    /\ UNCHANGED <<logger_level, _loggers, _exit, _log_queue, producer_vars,
                   consumer_vars, mpc, last_add, at_exit,
                   other_vars, file_backend>>

\* uhd::log::set_logger_level
SetLoggerLevel(key, level, max_ops) ==
    /\ ipc = "ready"
    /\ mpc # "destroyed"
    /\ n_stmts + n_cfg < max_ops
    /\ logger_level' = map_assign(logger_level, key, level)
    /\ n_cfg' = n_cfg + 1
    /\ UNCHANGED <<global_level, _loggers, _exit, _log_queue, producer_vars,
                   consumer_vars, mpc, last_add, at_exit,
                   other_vars, file_backend>>

\* uhd::log::set_console_level
SetConsoleLevel(level, max_ops) ==
    SetLoggerLevel(UHD_CONSOLE_LOGGER_KEY, level, max_ops)

\* uhd::log::set_file_level
SetFileLevel(level, max_ops) ==
    SetLoggerLevel(UHD_FILE_LOGGER_KEY, level, max_ops)

(***************************************************************************)
(* The specifications.                                                     *)
(***************************************************************************)
\* the log statements of the producer threads
Producing(producers, severities, max_ops) ==
    \/ \E t \in producers, verbosity \in severities : Log_ctor(t, verbosity, max_ops)
    \/ \E t \in producers : Log_dtor(t)

\* pop_task on the consumer thread
Consuming ==
    \/ MainLoopTest
    \/ PopTimedWait
    \/ MainDispatch
    \/ DrainPop
    \/ DrainDispatch

\* the destruction of the singleton
Teardown ==
    \/ Dtor_set_exit
    \/ Dtor_join

\* configuration calls, from any thread
Configuring(max_ops) ==
    \/ \E key \in KeyInputs, logger_fn \in FnInputs : AddLogger(key, logger_fn, max_ops)
    \/ \E level \in LevelInputs : SetLogLevel(level, max_ops)
    \/ \E key \in KeyInputs, level \in LevelInputs : SetLoggerLevel(key, level, max_ops)
    \/ \E level \in LevelInputs : SetConsoleLevel(level, max_ops)
    \/ \E level \in LevelInputs : SetFileLevel(level, max_ops)

Init == InitWith(EnvLevels, {FALSE}, BOOLEAN, {TRUE})

Next ==
    \/ Producing(Producers, SevInputs, MaxOps)
    \/ Consuming
    \/ Teardown
    \/ Configuring(MaxOps)

\* every operation, a few of them
Spec == Init /\ [][Next]_vars

InitBurst == InitWith({info}, {FALSE}, {FALSE}, {TRUE})

NextBurst == Producing(BurstProducers, BurstSevInputs, MaxBurst) \/ Consuming \/ Teardown

\* one producer, more log statements than the queue holds, no configuration call
SpecBurst == InitBurst /\ [][NextBurst]_vars

InitOff == InitWith({info, off}, {FALSE}, {FALSE}, {TRUE})

NextOff == Producing(OffProducers, OffSevInputs, MaxOffOps) \/ Consuming \/ Teardown

\* one producer whose log statements may be constructed with the severity off
SpecOff == InitOff /\ [][NextOff]_vars

InitFair == InitWith({info}, {FALSE}, BOOLEAN, {TRUE})

NextFair ==
    \/ Producing(FairProducers, FairSevInputs, MaxFairOps)
    \/ Consuming
    \/ Teardown
    \/ Configuring(MaxFairOps)

\* every operation, a few of them; the consumer thread is scheduled fairly
SpecFair == InitFair /\ [][NextFair]_vars /\ WF_vars(Consuming)

InitLive == InitWith({info}, {FALSE}, {FALSE}, {FALSE})

\* with the histories off n_stmts stays 0, so the producer never runs out of
\* log statements
NextLive == Producing(LiveProducers, LiveSevInputs, MaxOps) \/ Consuming \/ Teardown

\* a producer that logs for ever; the consumer thread is scheduled fairly and
\* _pop_task.reset() returns once pop_task has
SpecLive ==
    InitLive /\ [][NextLive]_vars /\ WF_vars(Consuming) /\ WF_vars(Dtor_join)

\* the state the constructor body starts in, for every environment
InitCtor ==
    /\ env \in [level : LevelTexts,
                 console_level : ConsoleLevelTexts,
                 file_level : FileLevelTexts,
                 console_disable : BOOLEAN,
                 file : FileTargets]
    /\ ipc = "global"
    /\ global_level = off
    /\ logger_level = {}
    /\ _loggers = {}
    /\ _exit = FALSE
    /\ _log_queue = <<>>
    /\ ppc = [t \in Producers |-> "idle"]
    /\ stmt = [t \in Producers |-> [_log_it |-> FALSE, _log_info |-> NoInfo, id |-> 0]]
    /\ cpc = "unstarted"
    /\ log_info = NoInfo
    /\ it = END
    /\ mpc = "running"
    /\ n_stmts = 0
    /\ n_cfg = 0
    /\ n_push = 0
    /\ ledger = <<>>
    /\ visits = <<>>
    /\ keys_at_pop = {}
    /\ last_add = [k \in Keys |-> "none"]
    /\ at_exit = [set |-> FALSE, queue |-> <<>>, keys |-> {}]
    /\ file_backend = NoBackend
    /\ n_tasks = 0
    /\ parse = <<>>
    /\ popped = <<>>
    /\ level_at_add = [k \in Keys |-> "never"]
    /\ history_on = TRUE

\* the constructor body
Constructing ==
    \/ CtorGlobal
    \/ CtorConsole
    \/ CtorFile
    \/ CtorLaunch

NextCtor ==
    \/ Constructing
    \/ Producing(CtorProducers, CtorSevInputs, MaxCtorOps)
    \/ Consuming
    \/ Teardown

\* the constructor in every environment, then one producer and the teardown
SpecCtor == InitCtor /\ [][NextCtor]_vars


(***************************************************************************)
(* Properties.                                                             *)
(***************************************************************************)
\* the log object of statement id has been destroyed
finished(id) == \A t \in Producers : ~(ppc[t] = "built" /\ stmt[t].id = id)

\* the record of a visit was at or above the key's threshold, or the key had none
passed_threshold(v) == ~v.has_level \/ v.verbosity >= v.level

\* the keys the consumer has visited for the record id
visited_keys(id) == {visits[j].key : j \in {x \in DOMAIN visits : visits[x].id = id}}

\* C1: when pop_task has returned, every record that was in the queue when
\* _exit was set has been offered to every key that was registered then, and
\* was handed to that key's logger if it passed the key's threshold.
C1_ShutdownDrains ==
    cpc = "done" =>
        \A i \in DOMAIN at_exit.queue : \A k \in at_exit.keys :
            \E j \in DOMAIN visits :
                /\ visits[j].id = at_exit.queue[i].id
                /\ visits[j].key = k
                /\ passed_threshold(visits[j]) => visits[j].called

\* C1's case: two records were queued at the exit request, two loggers were
\* registered, and pop_task has returned after calling a logger for the last one.
C1_Witness ==
    /\ cpc = "done"
    /\ Len(at_exit.queue) >= 2
    /\ Cardinality(at_exit.keys) >= 2
    /\ \E j \in DOMAIN visits :
          /\ visits[j].id = at_exit.queue[Len(at_exit.queue)].id
          /\ visits[j].called
          /\ visits[j].phase = "drain"

\* C2: a statement whose severity was below global_level when it was
\* constructed is never pushed, and every record in the queue, held by the
\* consumer or seen by a logger comes from a statement that was at or above
\* global_level when it was constructed.
C2_GlobalFilterAbsolute ==
    /\ \A id \in DOMAIN ledger :
          ledger[id].verbosity < ledger[id].level =>
              ledger[id].pushes = 0 /\ ledger[id].seq = 0
    /\ \A i \in DOMAIN _log_queue :
          ledger[_log_queue[i].id].verbosity >= ledger[_log_queue[i].id].level
    /\ log_info.id # 0 => ledger[log_info.id].verbosity >= ledger[log_info.id].level
    /\ \A j \in DOMAIN visits :
          ledger[visits[j].id].verbosity >= ledger[visits[j].id].level

\* C2's case: a statement constructed below global_level has been destroyed
\* unpushed although global_level was lowered to its severity meanwhile, and
\* another statement has reached a logger.
C2_Witness ==
    /\ \E id \in DOMAIN ledger :
          /\ finished(id)
          /\ ledger[id].verbosity < ledger[id].level
          /\ ledger[id].verbosity >= global_level
          /\ ledger[id].pushes = 0
    /\ \E j \in DOMAIN visits : visits[j].called

\* C3: the consumer calls the logger of a key for a record iff the key has no
\* threshold entry or the record is at or above the threshold read at that
\* visit; and once the for loop is over, every key that was registered when
\* the record was popped has been visited for it.
C3_PerSinkFilter ==
    /\ \A j \in DOMAIN visits : visits[j].called <=> passed_threshold(visits[j])
    /\ (cpc \in {"loop", "wait", "drain", "done"} /\ log_info.id # 0) =>
           keys_at_pop \subseteq visited_keys(log_info.id)

\* C3's case: one visit skipped a logger, one called a logger whose threshold
\* had been raised, one called a logger without a threshold entry, and one
\* happened in the exit procedure.
C3_Witness ==
    /\ \E j \in DOMAIN visits : ~visits[j].called
    /\ \E j \in DOMAIN visits :
          visits[j].called /\ visits[j].has_level /\ visits[j].level = warning
    /\ \E j \in DOMAIN visits : visits[j].phase = "drain"

\* C3's other case: a logger registered without a threshold entry was called.
C3_WitnessNoEntry ==
    \E j \in DOMAIN visits : visits[j].called /\ ~visits[j].has_level

\* C4: two records handed to the logger of the same key are handed over in
\* the order in which their pushes succeeded.
C4_FifoDelivery ==
    \A i, j \in DOMAIN visits :
        (/\ i < j
         /\ visits[i].key = visits[j].key
         /\ visits[i].called
         /\ visits[j].called) =>
            ledger[visits[i].id].seq < ledger[visits[j].id].seq

\* C4's case: two producers pushed in the reverse of the order of construction,
\* the main loop dispatched the first record and the exit procedure the second.
C4_Witness ==
    \E i, j \in DOMAIN visits :
        /\ i < j
        /\ visits[i].key = visits[j].key
        /\ visits[i].called
        /\ visits[j].called
        /\ visits[i].id > visits[j].id
        /\ visits[i].phase = "main"
        /\ visits[j].phase = "drain"


\* the consumer is inside a for loop over _loggers, its iterator at an entry
iterating == cpc \in {"dispatch", "drain_dispatch"}

\* C5: no step changes the registry _loggers while the consumer is in the
\* middle of iterating over it.
C5_RegistryNotChangedUnderIteration ==
    [][_loggers' # _loggers => ~iterating]_vars

\* C6: the queue never holds more than QueueCapacity records.
C6_QueueBounded == Len(_log_queue) <= QueueCapacity

\* C6's case: the queue is full and a push has been turned away.
C6_Witness ==
    /\ Len(_log_queue) = QueueCapacity
    /\ \E id \in DOMAIN ledger : ledger[id].pushes = 1 /\ ledger[id].seq = 0

\* C7: while the singleton exists, the destructor of every live log statement
\* can take its step, push included, whatever the queue holds and wherever
\* the consumer is.
C7_ProducersNeverBlock ==
    mpc # "destroyed" =>
        \A t \in Producers : ppc[t] = "built" => ENABLED Log_dtor(t)

\* C7's case: a statement that passed the global filter is about to be
\* destroyed while the queue is full and pop_task has already returned.
C7_Witness ==
    /\ ipc = "ready"
    /\ mpc # "destroyed"
    /\ cpc = "done"
    /\ Len(_log_queue) = QueueCapacity
    /\ \E t \in Producers : ppc[t] = "built" /\ stmt[t]._log_it

\* C8: the decision of a statement is its severity against global_level at
\* construction; a live statement has not been handed to push, a destroyed one
\* has been handed to push once if the decision was to log and never otherwise.
C8_CommitExactlyOnce ==
    \A id \in DOMAIN ledger :
        /\ ledger[id].log_it <=> ledger[id].verbosity >= ledger[id].level
        /\ ledger[id].pushes = IF finished(id) /\ ledger[id].log_it THEN 1 ELSE 0

\* C8's case: a statement that passed the filter was pushed although
\* global_level is now above its severity.
C8_Witness ==
    \E id \in DOMAIN ledger :
        /\ finished(id)
        /\ ledger[id].log_it
        /\ ledger[id].pushes = 1
        /\ ledger[id].verbosity < global_level

\* C8's other case: a statement that failed the filter was destroyed unpushed
\* although global_level is now at or below its severity.
C8_WitnessLowered ==
    \E id \in DOMAIN ledger :
        /\ finished(id)
        /\ ~ledger[id].log_it
        /\ ledger[id].pushes = 0
        /\ ledger[id].verbosity >= global_level

\* C9: the registry holds at most one entry per key, the logger called under a
\* key is the one most recently registered under it, and no record is offered
\* twice under the same key.
C9_OneSinkPerKey ==
    /\ \A k \in Keys : Cardinality({e \in _loggers : e.key = k}) <= 1
    /\ \A j \in DOMAIN visits : visits[j].fn = visits[j].reg_fn
    /\ \A i, j \in DOMAIN visits :
          (visits[i].key = visits[j].key /\ visits[i].id = visits[j].id) => i = j

\* C9's case: add_logger replaced the built-in console logger and a record was
\* then handed to the new one.
C9_Witness ==
    /\ Cardinality({e \in _loggers : e.key = UHD_CONSOLE_LOGGER_KEY}) = 1
    /\ \E j \in DOMAIN visits :
          /\ visits[j].key = UHD_CONSOLE_LOGGER_KEY
          /\ visits[j].fn \in FnInputs
          /\ visits[j].called

\* C9's other case: add_logger was called twice with a new key and a record
\* was then handed to the second logger.
C9_WitnessTwice ==
    /\ n_cfg = 2
    /\ \E j \in DOMAIN visits :
          /\ visits[j].key = "user"
          /\ visits[j].fn = "fnB"
          /\ visits[j].called
    /\ \A j \in DOMAIN visits : visits[j].fn # "fnA"

\* C10: a step that changes global_level changes nothing else of the
\* singleton, the queue included; and a record is handed to every logger whose
\* threshold it passes whatever global_level is when it is dispatched.
C10_NoRetroactiveFilter ==
    /\ [][global_level' # global_level =>
            UNCHANGED <<logger_level, _loggers, _exit, _log_queue>>]_vars
    /\ [](\A j \in DOMAIN visits : passed_threshold(visits[j]) => visits[j].called)

\* C10's case: a record was handed to a logger while global_level was above
\* its severity.
C10_Witness ==
    \E j \in DOMAIN visits :
        visits[j].called /\ visits[j].verbosity < visits[j].global

\* C11: a logger is invoked only by a step of the consumer, standing in one of
\* the two for loops of pop_task, one invocation per step; no step of a log
\* statement, of a configuration call or of the teardown invokes a logger.
C11_SinkCallsOnlyByConsumer ==
    [][visits' # visits =>
          /\ cpc \in {"dispatch", "drain_dispatch"}
          /\ Len(visits') = Len(visits) + 1
          /\ UNCHANGED <<ppc, stmt, n_stmts, n_cfg, n_push, mpc>>]_vars

\* C11's case: a logger has been called while a log statement of a producer
\* is alive and after a configuration call was made.
C11_Witness ==
    /\ \E j \in DOMAIN visits : visits[j].called
    /\ \E t \in Producers : ppc[t] = "built"
    /\ n_cfg >= 1

\* text is a decimal numeral
all_digits(text) == text # <<>> /\ \A i \in DOMAIN text : isdigit(text[i])

\* text is the ordinal of a level from trace to fatal
is_ordinal(text) ==
    all_digits(text) /\ decimal(text) >= trace /\ decimal(text) <= fatal

\* text is the name of an enumerator
is_level_name(text) == \E i \in DOMAIN level_names : level_names[i] = text

\* C12: every call of _get_log_level returned the level of the ordinal when
\* the text was an ordinal from trace to fatal, the level of the name when the
\* text was an enumerator name, and otherwise returned the previous level and
\* logged an internal error; no call threw, and the constructor never fails.
C12_LevelParsingDegrades ==
    /\ \A i \in DOMAIN parse :
          /\ ~parse[i].threw
          /\ IF is_ordinal(parse[i].text)
             THEN parse[i].level = decimal(parse[i].text)
             ELSE IF is_level_name(parse[i].text)
             THEN level_names[parse[i].level + 1] = parse[i].text
             ELSE parse[i].level = parse[i].previous /\ parse[i].logged
    /\ ipc # "failed"

\* C13: when the open failed the backend never has an open stream, none of
\* its log calls writes a line, every record offered to it was offered to the
\* console logger as well, and no close is made; when the open succeeded the
\* stream stays open until the destruction, which closes it exactly once.
C13_FileSinkDegrades ==
    /\ env.file = "bad" =>
          /\ ~file_backend.is_open
          /\ file_backend.closes = 0
          /\ \A j \in DOMAIN visits : ~visits[j].wrote
    /\ \A j \in DOMAIN visits :
          (visits[j].key = UHD_FILE_LOGGER_KEY /\ ~env.console_disable) =>
              \E i \in 1..(j - 1) :
                  /\ visits[i].key = UHD_CONSOLE_LOGGER_KEY
                  /\ visits[i].id = visits[j].id
                  /\ visits[i].called <=> passed_threshold(visits[i])
    /\ (env.file = "ok" /\ file_backend.alive) =>
          file_backend.is_open /\ file_backend.closes = 0
    /\ (env.file = "ok" /\ mpc = "destroyed") =>
          ~file_backend.alive /\ file_backend.closes = 1
    /\ file_backend.closes <= 1

\* C13's case: the open failed, the file logger was called for a record and
\* wrote nothing, the console logger was called for the same record, and the
\* singleton has been destroyed.
C13_Witness ==
    /\ env.file = "bad"
    /\ mpc = "destroyed"
    /\ file_backend.cerr = 1
    /\ \E i, j \in DOMAIN visits :
          /\ visits[j].key = UHD_FILE_LOGGER_KEY
          /\ visits[j].called
          /\ ~visits[j].wrote
          /\ visits[i].key = UHD_CONSOLE_LOGGER_KEY
          /\ visits[i].called
          /\ visits[i].id = visits[j].id

\* C13's other case: the open succeeded, a line was written, and the
\* destruction has closed the stream.
C13_WitnessOpened ==
    /\ env.file = "ok"
    /\ mpc = "destroyed"
    /\ file_backend.closes = 1
    /\ \E j \in DOMAIN visits : visits[j].wrote

\* C14: a log statement constructed while global_level is off is never handed
\* to push, and no record in the queue, held by the consumer or seen by a
\* logger has the severity off.
C14_OffNeverAttached ==
    /\ \A id \in DOMAIN ledger : ledger[id].level = off => ledger[id].pushes = 0
    /\ \A i \in DOMAIN _log_queue : _log_queue[i].verbosity # off
    /\ log_info.id # 0 => log_info.verbosity # off
    /\ \A j \in DOMAIN visits : visits[j].verbosity # off

\* the registrations the environment asks for are in place, and no other
registered_as_configured ==
    /\ IF env.console_disable
       THEN /\ ~map_has(_loggers, UHD_CONSOLE_LOGGER_KEY)
            /\ ~map_has(logger_level, UHD_CONSOLE_LOGGER_KEY)
       ELSE /\ map_has(_loggers, UHD_CONSOLE_LOGGER_KEY)
            /\ map_at(_loggers, UHD_CONSOLE_LOGGER_KEY) = "console_log"
            /\ map_has(logger_level, UHD_CONSOLE_LOGGER_KEY)
            /\ env.console_level = <<>> =>
                   map_at(logger_level, UHD_CONSOLE_LOGGER_KEY) = trace
    /\ IF env.file = "none"
       THEN /\ ~map_has(_loggers, UHD_FILE_LOGGER_KEY)
            /\ ~map_has(logger_level, UHD_FILE_LOGGER_KEY)
       ELSE /\ map_has(_loggers, UHD_FILE_LOGGER_KEY)
            /\ map_at(_loggers, UHD_FILE_LOGGER_KEY) = "file_log"
            /\ map_has(logger_level, UHD_FILE_LOGGER_KEY)
    /\ map_keys(_loggers) \subseteq {UHD_CONSOLE_LOGGER_KEY, UHD_FILE_LOGGER_KEY}

\* C15: when the constructor has returned, the console logger and its level
\* (trace unless UHD_LOG_CONSOLE_LEVEL is set) are registered unless the
\* console is disabled, the file logger and its level are registered iff a file
\* target is configured, and exactly one pop_task has been started; pop_task
\* is never started before these registrations are in place, nor twice.
C15_InitializationOutcome ==
    /\ ipc = "ready" => n_tasks = 1 /\ registered_as_configured
    /\ n_tasks >= 1 => registered_as_configured
    /\ n_tasks <= 1
    /\ cpc # "unstarted" <=> n_tasks = 1

\* C15's case: the constructor has returned with the console logger and the
\* file logger registered, the console level configured, and pop_task started.
C15_Witness ==
    /\ ipc = "ready"
    /\ ~env.console_disable
    /\ env.console_level # <<>>
    /\ map_at(logger_level, UHD_CONSOLE_LOGGER_KEY) = error
    /\ env.file # "none"
    /\ map_keys(_loggers) = {UHD_CONSOLE_LOGGER_KEY, UHD_FILE_LOGGER_KEY}
    /\ cpc = "loop"

\* C15's other case: the constructor has returned with the console disabled
\* and no file target, and pop_task runs over an empty registry.
C15_WitnessBare ==
    /\ ipc = "ready"
    /\ env.console_disable
    /\ env.file = "none"
    /\ _loggers = {}
    /\ n_tasks = 1
    /\ Len(popped) >= 1

\* the ids of the records handed to the logger of key k, in order
delivered_ids(k) ==
    LET handed == SelectSeq(visits, LAMBDA v : v.key = k /\ v.called)
    IN [j \in DOMAIN handed |-> handed[j].id]

\* the ids of the queued records, oldest first
queued_ids == [i \in DOMAIN _log_queue |-> _log_queue[i].id]

\* the first QueueCapacity statement ids
first_ids == [i \in 1..QueueCapacity |-> i]

\* statement id was constructed and destroyed
destroyed_stmts == {id \in DOMAIN ledger : finished(id)}

C17_ShutdownTerminates == _exit ~> (cpc = "done" /\ mpc = "destroyed")

\* the push of statement id succeeded
accepted(id) == id \in DOMAIN ledger /\ ledger[id].seq > 0

\* the record of statement id has been popped and offered to every logger that
\* the constructor registered
offered(id) ==
    /\ \E i \in DOMAIN popped : popped[i] = id
    /\ \A k \in map_keys(_loggers) :
          level_at_add[k] = "never" => k \in visited_keys(id)

occurrences(q, x) == Cardinality({i \in DOMAIN q : q[i] = x})

\* C19: a record whose push succeeded is either still in the queue, once, or
\* has been popped, once, never both; a record whose push did not succeed is
\* never popped; and all the visits made for a record belong to one pop: they
\* are in the same loop of pop_task and no key is visited twice.
C19_AtMostOnce ==
    /\ \A id \in DOMAIN ledger :
          occurrences(popped, id) + occurrences(queued_ids, id) =
              IF accepted(id) THEN 1 ELSE 0
    /\ \A i, j \in DOMAIN visits :
          visits[i].id = visits[j].id =>
              /\ visits[i].phase = visits[j].phase
              /\ visits[i].key = visits[j].key => i = j

\* C19's case: a record was in the queue when _exit was set, the main loop
\* popped and dispatched it afterwards, the exit procedure dispatched another,
\* and pop_task has returned.
C19_Witness ==
    /\ cpc = "done"
    /\ \E i \in DOMAIN at_exit.queue : \E j \in DOMAIN visits :
          /\ visits[j].id = at_exit.queue[i].id
          /\ visits[j].called
          /\ visits[j].phase = "main"
    /\ \E j \in DOMAIN visits : visits[j].called /\ visits[j].phase = "drain"

\* the keys whose entry differs between the maps m and n
changed_keys(m, n) == {k \in Keys : {e \in m : e.key = k} # {e \in n : e.key = k}}

\* C20: a step that changes _loggers changes the entry of one key and leaves
\* logger_level, global_level, _exit and the queue unchanged; a step that
\* changes logger_level changes the entry of one key and leaves _loggers,
\* global_level, _exit and the queue unchanged; and a key that had a level
\* when a logger was registered under it still has one.
C20_IndependentMaps ==
    /\ [][_loggers' # _loggers =>
            /\ Cardinality(changed_keys(_loggers, _loggers')) = 1
            /\ UNCHANGED <<logger_level, global_level, _exit, _log_queue>>]_vars
    /\ [][logger_level' # logger_level =>
            /\ Cardinality(changed_keys(logger_level, logger_level')) = 1
            /\ UNCHANGED <<_loggers, global_level, _exit, _log_queue>>]_vars
    /\ [](\A k \in Keys : level_at_add[k] = "set" => map_has(logger_level, k))

\* C20's case: set_logger_level gave the key user a level before any logger
\* was registered under it, add_logger then registered one, and a record below
\* that level was kept from the new logger.
C20_Witness ==
    /\ n_cfg = 2
    /\ level_at_add["user"] = "set"
    /\ \E j \in DOMAIN visits :
          /\ visits[j].key = "user"
          /\ visits[j].has_level
          /\ visits[j].level = warning
          /\ visits[j].verbosity < warning
          /\ ~visits[j].called

\* C20's other case: the console level was raised, add_logger then replaced
\* the console logger, and a record below that level was kept from the new
\* logger.
C20_WitnessReplaced ==
    /\ n_cfg = 2
    /\ level_at_add[UHD_CONSOLE_LOGGER_KEY] = "set"
    /\ \E j \in DOMAIN visits :
          /\ visits[j].key = UHD_CONSOLE_LOGGER_KEY
          /\ visits[j].fn \in FnInputs
          /\ visits[j].level = warning
          /\ ~visits[j].called

====
